---- MODULE Spec2Model ----
(***************************************************************************)
(* A model of rash's history store (rash/database.py) and of its exporter  *)
(* (rash/export.py).                                                       *)
(*                                                                         *)
(* Text is a sequence of one-character strings, so that globbing and path  *)
(* normalisation work on characters as the code does.  A value of the      *)
(* program (a field of a record, a column of a row, a bound parameter) is  *)
(* a tagged record: None (Python's None, a null column), StrV(s) a string, *)
(* IntV(n) a number, TextV(n) the ISO text sqlite3 stores for              *)
(* datetime.utcfromtimestamp(n), and ListV, a list, which sqlite3 cannot   *)
(* bind.                                                                   *)
(***************************************************************************)
EXTENDS Integers, Sequences, FiniteSets, TLC

VARIABLES
    dbexists,   \* os.path.exists(dbpath)
    committed,  \* the tables as the store file holds them
    inst,       \* a DataBase instance has been constructed
    _db,        \* self._db: "None", or the state of the connection it names
    db,         \* self.db, the attribute line 75 assigns
    view,       \* the tables as the connection self._db sees them
    held,       \* the caller is inside a `with db.connection():` block
    owner,      \* that block opened the connection itself
    yielded,    \* the state of the connection the last connection() yielded
    nimports,   \* import_dict calls made so far
    failed,     \* the import_dict calls that raised
    ret,        \* the outcome of the last call
    outfile     \* the export's output file: whether it exists, its lines

vars == <<dbexists, committed, inst, _db, db, view, held, owner, yielded,
          nimports, failed, ret, outfile>>

storeVars == <<dbexists, committed, inst, _db, db, view, held, owner, yielded,
               nimports, failed>>

-----------------------------------------------------------------------------
(* Values *)

None == [k |-> "null", v |-> 0, s |-> <<>>]
StrV(s) == [k |-> "str", v |-> 0, s |-> s]
IntV(n) == [k |-> "int", v |-> n, s |-> <<>>]
TextV(n) == [k |-> "text", v |-> n, s |-> <<>>]
ListV == [k |-> "list", v |-> 0, s |-> <<>>]


Min(a, b) == IF a <= b THEN a ELSE b

RECURSIVE IndexFrom(_, _, _)
IndexFrom(s, x, i) ==
    IF i > Len(s) THEN 0
    ELSE IF s[i] = x THEN i
    ELSE IndexFrom(s, x, i + 1)

\* The first position of x in s, or 0.
IndexOf(s, x) == IndexFrom(s, x, 1)


\* sep.join(parts), on sequences.
RECURSIVE JoinWith(_, _)
JoinWith(sep, parts) ==
    IF parts = <<>> THEN <<>>
    ELSE IF Len(parts) = 1 THEN parts[1]
    ELSE parts[1] \o sep \o JoinWith(sep, Tail(parts))

-----------------------------------------------------------------------------
(* os.path, as normalize_directory uses it (posixpath) *)

sep == "/"

\* os.getcwd()
Getcwd == <<"/", "w">>

StartsWith(s, n) == Len(s) >= n /\ \A i \in 1..n : s[i] = sep

\* path.split('/')
RECURSIVE SplitFrom(_, _, _, _)
SplitFrom(path, i, cur, acc) ==
    IF i > Len(path) THEN Append(acc, cur)
    ELSE IF path[i] = sep THEN SplitFrom(path, i + 1, <<>>, Append(acc, cur))
    ELSE SplitFrom(path, i + 1, Append(cur, path[i]), acc)

Split(path) == SplitFrom(path, 1, <<>>, <<>>)

\* posixpath.join(a, b)
PathJoin(a, b) ==
    IF StartsWith(b, 1) THEN b
    ELSE IF a = <<>> \/ a[Len(a)] = sep THEN a \o b
    ELSE a \o <<sep>> \o b

\* The loop of posixpath.normpath over the components.
RECURSIVE NormComps(_, _, _, _)
NormComps(comps, i, new, initial) ==
    IF i > Len(comps) THEN new
    ELSE LET comp == comps[i] IN
         IF comp = <<>> \/ comp = <<".">> THEN NormComps(comps, i + 1, new, initial)
         ELSE IF comp # <<".", ".">>
                 \/ (initial = 0 /\ new = <<>>)
                 \/ (new # <<>> /\ new[Len(new)] = <<".", ".">>)
              THEN NormComps(comps, i + 1, Append(new, comp), initial)
         ELSE IF new # <<>>
              THEN NormComps(comps, i + 1, SubSeq(new, 1, Len(new) - 1), initial)
         ELSE NormComps(comps, i + 1, new, initial)

\* posixpath.normpath: exactly two leading slashes are kept, three or more
\* collapse to one.
Normpath(path) ==
    IF path = <<>> THEN <<".">>
    ELSE LET initial == IF StartsWith(path, 2) /\ ~StartsWith(path, 3) THEN 2
                        ELSE IF StartsWith(path, 1) THEN 1 ELSE 0
             new == NormComps(Split(path), 1, <<>>, initial)
             out == [i \in 1..initial |-> sep] \o JoinWith(<<sep>>, new)
         IN  IF out = <<>> THEN <<".">> ELSE out

\* posixpath.abspath
Abspath(path) ==
    IF StartsWith(path, 1) THEN Normpath(path)
    ELSE Normpath(PathJoin(Getcwd, path))

normalize_directory(path) ==
    LET p == Abspath(path) IN
    IF p # <<>> /\ p[Len(p)] = sep THEN SubSeq(p, 1, Len(p) - 1) ELSE p

-----------------------------------------------------------------------------
(* SQLite's glob(pattern, text): * any run, ? any one character *)

RECURSIVE GlobFrom(_, _, _, _)
GlobFrom(pat, s, i, j) ==
    IF i > Len(pat) THEN j > Len(s)
    ELSE IF pat[i] = "*"
         THEN \E k \in j..(Len(s) + 1) : GlobFrom(pat, s, i + 1, k)
    ELSE IF j > Len(s) THEN FALSE
    ELSE (pat[i] = "?" \/ pat[i] = s[j]) /\ GlobFrom(pat, s, i + 1, j + 1)

Glob(pat, s) == GlobFrom(pat, s, 1, 1)

-----------------------------------------------------------------------------
(* The tables.  A row's id is its position: rows are only ever appended,   *)
(* so lastrowid is the new length.  Every row carries `by`, the number of  *)
(* the import_dict call that inserted it (not a column: bookkeeping for    *)
(* the properties).                                                        *)

\* No table holds a row: the store before it is created, and the tables
\* as schema.sql creates them.
EmptyTables ==
    [rash_info |-> <<>>,
     command_list |-> <<>>, directory_list |-> <<>>, terminal_list |-> <<>>,
     environment_variable |-> <<>>, command_history |-> <<>>,
     command_environment_map |-> <<>>, pipe_status_map |-> <<>>]

\* _init_db: the schema, and the one rash_info row.
init_db ==
    [EmptyTables EXCEPT !.rash_info =
        <<[rash_version |-> "__version__", schema_version |-> "0.1.dev1"]>>]

DimTables == {"command_list", "directory_list", "terminal_list",
              "environment_variable"}

\* sqlite3 refuses to bind a list.
Bindable(value) == value.k # "list"

\* The outcome of a step on the tables t: the tables after it, the id it
\* returns, the exception it raised ("none" when it returned).
Outcome(t, id, exc) == [t |-> t, id |-> id, exc |-> exc]

\* Lines 173-179: the INSERT, and lastrowid.
insert_dimension(t, table, values, by) ==
    Outcome([t EXCEPT ![table] = Append(@, [key |-> values, by |-> by])],
            IntV(Len(t[table]) + 1), "none")

\* Lines 167-172: the ids the SELECT yields, in rowid order.
select_ids(t, table, values) ==
    {i \in 1..Len(t[table]) : t[table][i].key = values}

\* _get_maybe_new_id without the SELECT: every call inserts.
get_or_insert_AlwaysInsert(t, table, values, found, by) ==
    IF \E i \in 1..Len(values) : ~Bindable(values[i])
    THEN Outcome(t, None, "ProgrammingError")
    ELSE insert_dimension(t, table, values, by)

\* Lines 171-179: the first id found, else the id of a row inserted.
get_or_insert(t, table, values, found, by) ==
    IF \E i \in 1..Len(values) : ~Bindable(values[i])
    THEN Outcome(t, None, "ProgrammingError")
    ELSE IF found # {}
    THEN Outcome(t, IntV(CHOOSE i \in found : \A j \in found : i <= j), "none")
    ELSE insert_dimension(t, table, values, by)

\* _get_maybe_new_id: the id of the first row whose columns equal the
\* values, else the id of a row inserted with them.
get_maybe_new_id(t, table, columns, by) ==
    get_or_insert(t, table, [i \in 1..Len(columns) |-> columns[i][2]],
                  select_ids(t, table, [i \in 1..Len(columns) |-> columns[i][2]]), by)

get_maybe_new_command_id(t, command, by) ==
    IF command = None THEN Outcome(t, None, "none")
    ELSE get_maybe_new_id(t, "command_list", <<(<<"command", command>>)>>, by)

get_maybe_new_directory_id(t, directory, by) ==
    IF directory = None THEN Outcome(t, None, "none")
    ELSE get_maybe_new_id(t, "directory_list",
                          <<(<<"directory", StrV(normalize_directory(directory.s))>>)>>, by)

get_maybe_new_terminal_id(t, terminal, by) ==
    IF terminal = None THEN Outcome(t, None, "none")
    ELSE get_maybe_new_id(t, "terminal_list", <<(<<"terminal", terminal>>)>>, by)

\* convert_ts: datetime.utcfromtimestamp takes a number; sqlite3 stores the
\* datetime as its ISO text.
ConvertibleTs(ts) == ts.k \in {"null", "int"}

convert_ts(ts) == IF ts.k = "null" THEN None ELSE TextV(ts.v)

\* Lines 103-114 of _insert_command_history, the three ids resolved:
\* the timestamps converted, the row inserted.  `rec` (not a column) is
\* the record the row was imported from.
insert_history_row(t, command_id, directory_id, terminal_id, crec, by) ==
    IF ~ConvertibleTs(crec.start) \/ ~ConvertibleTs(crec.stop)
    THEN Outcome(t, None, "TypeError")
    ELSE IF ~Bindable(crec.exit_code)
    THEN Outcome(t, None, "ProgrammingError")
    ELSE Outcome([t EXCEPT !.command_history = Append(@,
                     [command_id |-> command_id, directory_id |-> directory_id,
                      terminal_id |-> terminal_id,
                      start_time |-> convert_ts(crec.start),
                      stop_time |-> convert_ts(crec.stop),
                      exit_code |-> crec.exit_code,
                      by |-> by, rec |-> crec])],
                 IntV(Len(t.command_history) + 1), "none")

\* _insert_command_history.
insert_command_history(t, crec, by) ==
    LET c == get_maybe_new_command_id(t, crec.command, by)
        d == get_maybe_new_directory_id(c.t, crec.cwd, by)
        tm == get_maybe_new_terminal_id(d.t, crec.terminal, by)
    IN  insert_history_row(tm.t, c.id, d.id, tm.id, crec, by)

\* _insert_environ: environ is the dict's items, in order; a pair with a
\* None is skipped; the loop ends at the first statement that raises.
RECURSIVE insert_environ_from(_, _, _, _, _)
\* Lines 125-131: the map row for the variable's id, and on to the next.
\* `var` (not a column) is the pair the id was resolved for.
insert_environ_row(ev, ch_id, environ, i, by) ==
    IF ev.exc # "none" THEN ev
    ELSE insert_environ_from(
             [ev.t EXCEPT !.command_environment_map = Append(@,
                 [ch_id |-> ch_id, ev_id |-> ev.id, by |-> by,
                  var |-> environ[i]])],
             ch_id, environ, i + 1, by)

insert_environ_from(t, ch_id, environ, i, by) ==
    IF i > Len(environ) THEN Outcome(t, None, "none")
    ELSE IF environ[i][1] = None \/ environ[i][2] = None
         THEN insert_environ_from(t, ch_id, environ, i + 1, by)
    ELSE insert_environ_row(
             get_maybe_new_id(t, "environment_variable",
                 <<(<<"variable_name", environ[i][1]>>),
                   (<<"variable_value", environ[i][2]>>)>>, by),
             ch_id, environ, i, by)

insert_environ(t, ch_id, environ, by) ==
    insert_environ_from(t, ch_id, environ, 1, by)

\* _insert_pipe_status: one row per position, position i of enumerate()
\* being 0-based.
RECURSIVE insert_pipe_status_from(_, _, _, _, _)
insert_pipe_status_from(t, ch_id, pipe_status, i, by) ==
    IF i > Len(pipe_status) THEN Outcome(t, None, "none")
    ELSE IF ~Bindable(pipe_status[i]) THEN Outcome(t, None, "ProgrammingError")
    ELSE insert_pipe_status_from(
             [t EXCEPT !.pipe_status_map = Append(@,
                 [ch_id |-> ch_id, program_position |-> i - 1,
                  exit_code |-> pipe_status[i], by |-> by])],
             ch_id, pipe_status, i + 1, by)

insert_pipe_status(t, ch_id, pipe_status, by) ==
    insert_pipe_status_from(t, ch_id, pipe_status, 1, by)

\* select_by_command_record returns [], so check_duplicate never skips.
select_by_command_record(crec) == <<>>

\* Line 97, reached when _insert_pipe_status returned.
import_after_pipe_status(p, ch_id) ==
    IF p.exc # "none" THEN p ELSE Outcome(p.t, ch_id, "none")

\* Line 96, reached when _insert_environ returned.
import_after_environ(e, ch_id, crec, by) ==
    IF e.exc # "none" THEN e
    ELSE import_after_pipe_status(
             insert_pipe_status(e.t, ch_id, crec.pipestatus, by), ch_id)

\* Line 95, reached when _insert_command_history returned.
import_after_history(h, crec, by) ==
    IF h.exc # "none" THEN h
    ELSE import_after_environ(
             insert_environ(h.t, h.id, crec.environ, by), h.id, crec, by)

\* The body of import_dict's with block, up to connection.commit(): the
\* tables the connection then sees, and the exception if a step raised.
import_body(t, crec, by) ==
    import_after_history(insert_command_history(t, crec, by), crec, by)

-----------------------------------------------------------------------------
(* _compile_sql_search_command_record.  SQL text is a sequence of tokens,  *)
(* a token a tuple of strings: a keyword <<"OR">>, a formatted template    *)
(* <<"glob(?, {0})", "CL.command">>.  A Python string is such a sequence,  *)
(* a list of strings a sequence of them.                                   *)

Kw(word) == <<(<<word>>)>>

\* template.format(name)
Format(template, name) == <<(<<template, name>>)>>

\* itertools.repeat(x, n)
repeat(x, n) == [i \in 1..n |-> x]

\* concat_expr: the conditions joined by the operator and wrapped in (), as
\* a list of one string; the empty list when there is none.
concat_expr(operator, conditions) ==
    LET expr == JoinWith(Kw(operator), conditions) IN
    IF expr # <<>> THEN <<Kw("(") \o expr \o Kw(")")>> ELSE <<>>

\* add_or_match putting the new arguments before the ones already there.
add_or_match_Prepend(st, template, name, args) ==
    [conditions |-> st.conditions
                    \o concat_expr("OR", repeat(Format(template, name), Len(args))),
     params |-> args \o st.params]

\* add_or_match, on the pair (conditions, params) it extends.
add_or_match(st, template, name, args) ==
    [conditions |-> st.conditions
                    \o concat_expr("OR", repeat(Format(template, name), Len(args))),
     params |-> st.params \o args]

keys == <<"command", "cwd", "terminal", "start", "stop", "exit_code">>

\* Lines 205-216: the three add_or_match calls.
compile_filters(pattern, cwd_glob, cwd) ==
    LET s0 == [conditions |-> <<>>, params |-> <<>>]
        s1 == add_or_match(s0, "glob(?, {0})", "CL.command", pattern)
        s2 == add_or_match(s1, "glob(?, {0})", "DL.directory", cwd_glob)
    IN  add_or_match(s2, "{0} = ?", "DL.directory",
                     [i \in 1..Len(cwd) |-> StrV(normalize_directory(cwd[i].s))])

\* Lines 218-220: the WHERE clause with the conditions joined by OR.
compile_where_Or(conditions) ==
    IF conditions # <<>> THEN Kw("WHERE") \o JoinWith(Kw("OR"), conditions) ELSE <<>>

\* Lines 218-220.
compile_where(conditions) ==
    IF conditions # <<>> THEN Kw("WHERE") \o JoinWith(Kw("AND"), conditions) ELSE <<>>

\* Lines 222-225 without the MAX().
compile_columns_NoMax(unique) ==
    Kw("CL.command") \o Kw("DL.directory") \o Kw("TL.terminal")
    \o Kw("start_time") \o Kw("stop_time") \o Kw("exit_code")

\* Lines 201-204 and 222-224: the selected columns.
compile_columns(unique) ==
    Kw("CL.command") \o Kw("DL.directory") \o Kw("TL.terminal")
    \o (IF unique THEN Kw("MAX(start_time)") ELSE Kw("start_time"))
    \o Kw("stop_time") \o Kw("exit_code")

\* Lines 222-225: the GROUP BY clause.
compile_group_by(unique) == IF unique THEN Kw("GROUP BY CL.command") ELSE <<>>

\* Lines 234-235 without the ORDER BY.
compile_tail_NoOrder == Kw("LIMIT ?")

\* Lines 234-235: the end of the statement.
compile_tail == Kw("ORDER BY start_time") \o Kw("LIMIT ?")

\* _compile_sql_search_command_record: (sql, params, keys).
compile_sql_search_command_record(limit, pattern, cwd, cwd_glob, unique) ==
    LET f == compile_filters(pattern, cwd_glob, cwd) IN
    [sql |-> Kw("SELECT") \o compile_columns(unique)
             \o Kw("FROM command_history")
             \o Kw("LEFT JOIN command_list AS CL ON command_id = CL.id")
             \o Kw("LEFT JOIN directory_list AS DL ON directory_id = DL.id")
             \o Kw("LEFT JOIN terminal_list AS TL ON terminal_id = TL.id")
             \o compile_where(f.conditions)
             \o compile_group_by(unique)
             \o compile_tail,
     params |-> Append(f.params, limit),
     keys |-> keys]

-----------------------------------------------------------------------------
(* SQLite executing the statement on the tables t *)

IsPlaceholder(tok) == tok[1] \in {"glob(?, {0})", "{0} = ?", "LIMIT ?"}

\* How many placeholders the first i tokens hold: the parameter the i-th
\* token binds, if it is a placeholder.
Ordinal(sql, i) == Cardinality({j \in 1..i : IsPlaceholder(sql[j])})

NumPlaceholders(sql) == Ordinal(sql, Len(sql))

\* The value of a dimension column through its LEFT JOIN: NULL when the
\* reference is NULL.
Deref(table, id) == IF id.k = "null" THEN None ELSE table[id.v].key[1]

\* command_history LEFT JOINed to the three dimension tables.
Joined(t) ==
    [i \in 1..Len(t.command_history) |->
        LET h == t.command_history[i] IN
        [rowid |-> i,
         cols |-> [c \in {"CL.command", "DL.directory", "TL.terminal",
                          "start_time", "stop_time", "exit_code"} |->
                    CASE c = "CL.command" -> Deref(t.command_list, h.command_id)
                      [] c = "DL.directory" -> Deref(t.directory_list, h.directory_id)
                      [] c = "TL.terminal" -> Deref(t.terminal_list, h.terminal_id)
                      [] c = "start_time" -> h.start_time
                      [] c = "stop_time" -> h.stop_time
                      [] c = "exit_code" -> h.exit_code]]]

\* Three-valued logic: "T", "F" and "N" (NULL).
Or3(S) == IF "T" \in S THEN "T" ELSE IF "N" \in S THEN "N" ELSE "F"

And3(S) == IF "F" \in S THEN "F" ELSE IF "N" \in S THEN "N" ELSE "T"

\* A condition of the WHERE clause on a joined row, with its parameter.
Atom(tok, param, row) ==
    LET x == row.cols[tok[2]] IN
    IF x.k = "null" \/ param.k = "null" THEN "N"
    ELSE IF tok[1] = "glob(?, {0})"
         THEN (IF Glob(param.s, x.s) THEN "T" ELSE "F")
    ELSE (IF x = param THEN "T" ELSE "F")

\* The WHERE clause's tokens with every condition replaced by its value on
\* the row; parameters are bound by position in the whole statement.
Valued(sql, params, from, to, row) ==
    [i \in 1..(to - from + 1) |->
        LET tok == sql[from + i - 1] IN
        IF IsPlaceholder(tok)
        THEN <<Atom(tok, params[Ordinal(sql, from + i - 1)], row)>>
        ELSE tok]

\* w split at the operator, outside parentheses.
RECURSIVE SplitTopFrom(_, _, _, _, _, _)
SplitTopFrom(w, op, i, depth, cur, acc) ==
    IF i > Len(w) THEN Append(acc, cur)
    ELSE IF w[i] = <<op>> /\ depth = 0
         THEN SplitTopFrom(w, op, i + 1, depth, <<>>, Append(acc, cur))
    ELSE SplitTopFrom(w, op, i + 1,
                      IF w[i] = <<"(">> THEN depth + 1
                      ELSE IF w[i] = <<")">> THEN depth - 1 ELSE depth,
                      Append(cur, w[i]), acc)

SplitTop(w, op) == SplitTopFrom(w, op, 1, 0, <<>>, <<>>)

\* A boolean expression of values: OR binds weaker than AND, parentheses
\* group.
RECURSIVE EvalExpr(_)
EvalExpr(w) ==
    LET ors == SplitTop(w, "OR")
        ands == SplitTop(w, "AND")
    IN  IF Len(ors) > 1 THEN Or3({EvalExpr(ors[i]) : i \in 1..Len(ors)})
        ELSE IF Len(ands) > 1 THEN And3({EvalExpr(ands[i]) : i \in 1..Len(ands)})
        ELSE IF w[1] = <<"(">> THEN EvalExpr(SubSeq(w, 2, Len(w) - 1))
        ELSE w[1][1]

\* The first token after the WHERE clause.
WhereEnd(sql) ==
    CHOOSE i \in 1..Len(sql) :
        /\ sql[i][1] \in {"GROUP BY CL.command", "ORDER BY start_time", "LIMIT ?"}
        /\ \A j \in 1..(i - 1) :
               sql[j][1] \notin {"GROUP BY CL.command", "ORDER BY start_time", "LIMIT ?"}

\* The value of the WHERE clause on a row ("T" when there is none).
Where(sql, params, row) ==
    LET w == IndexOf(sql, <<"WHERE">>) IN
    IF w = 0 THEN "T"
    ELSE EvalExpr(Valued(sql, params, w + 1, WhereEnd(sql) - 1, row))

\* The rows the WHERE clause keeps.
Eligible(sql, params, t) ==
    {r \in {Joined(t)[i] : i \in 1..Len(t.command_history)} :
        Where(sql, params, r) = "T"}

\* ORDER BY's order on a column: NULL first, then ascending.  The ISO texts
\* of two timestamps compare as the timestamps do.
Before(a, b) == a.k = "null" \/ (b.k # "null" /\ a.v <= b.v)

\* MAX(start_time) over rows: NULLs are ignored; NULL when all are.
MaxStart(rows) ==
    LET some == {r \in rows : r.cols["start_time"].k # "null"} IN
    IF some = {} THEN None
    ELSE (CHOOSE r \in some : \A q \in some : q.cols["start_time"].v
                                              <= r.cols["start_time"].v).cols["start_time"]

\* The rows that may stand for a group: with MAX(), a row holding the
\* maximum (any row when the maximum is NULL); without an aggregate, any.
Representatives(rows, withMax) ==
    IF withMax /\ MaxStart(rows) # None
    THEN {r \in rows : r.cols["start_time"] = MaxStart(rows)}
    ELSE rows

\* The candidate result rows for the eligible rows el: el itself, or with
\* GROUP BY one row per group of equal CL.command (the NULLs are one
\* group).  A set of sets: one element per way SQLite may pick the
\* representatives.
Candidates(sql, el) ==
    IF IndexOf(sql, <<"GROUP BY CL.command">>) # 0
    THEN {{f[c] : c \in {r.cols["CL.command"] : r \in el}} :
             f \in {g \in [{r.cols["CL.command"] : r \in el} -> el] :
                       \A c \in DOMAIN g :
                           g[c] \in Representatives(
                                       {r \in el : r.cols["CL.command"] = c},
                                       IndexOf(sql, <<"MAX(start_time)">>) # 0)}}
    ELSE {el}

\* The orders ORDER BY allows for the rows (any order without ORDER BY).
Orders(sql, rows) ==
    LET n == Cardinality(rows) IN
    {o \in [1..n -> rows] :
        /\ \A i, j \in 1..n : i # j => o[i] # o[j]
        /\ IndexOf(sql, <<"ORDER BY start_time">>) # 0
           => \A i \in 1..(n - 1) :
                  Before(o[i].cols["start_time"], o[i + 1].cols["start_time"])}

\* LIMIT: a negative limit is no limit.
Limited(o, limit) ==
    IF limit.v < 0 THEN o ELSE SubSeq(o, 1, Min(limit.v, Len(o)))

\* A result row as cursor.execute yields it and zip(keys, row) names it: a
\* CommandRecord.  rowid (not a field) is the command_history row it is.
Hydrate(sql, row) ==
    LET first == IndexOf(sql, <<"SELECT">>) + 1 IN
    [rowid |-> row.rowid,
     rec |-> [k \in {keys[i] : i \in 1..Len(keys)} |->
                 LET col == sql[first + IndexOf(keys, k) - 1][1] IN
                 IF col = "MAX(start_time)" THEN row.cols["start_time"]
                 ELSE row.cols[col]]]

\* The rows of one order, cut by LIMIT and named.
Rows(sql, o, limit) ==
    [i \in 1..Len(Limited(o, limit)) |-> Hydrate(sql, o[i])]

\* The result sequences cur.execute(sql, params) may yield on t.
Execute(sql, params, t) ==
    UNION {{Rows(sql, o, params[Ordinal(sql, IndexOf(sql, <<"LIMIT ?">>))]) :
               o \in Orders(sql, rows)} :
           rows \in Candidates(sql, Eligible(sql, params, t))}

-----------------------------------------------------------------------------
(* The inputs *)

MaxImports == 2

ls == <<"l", "s">>
git == <<"g", "i", "t">>
svn == <<"s", "v", "n">>

\* The dicts import_dict is given.  DictPipeFails and DictEnvFails hold a
\* list where sqlite3 needs a value it can bind.
DictLs1 ==
    [command |-> StrV(ls), cwd |-> StrV(<<"/", "a", "/">>), terminal |-> StrV(<<"t">>),
     start |-> IntV(100), stop |-> IntV(110), exit_code |-> IntV(0),
     environ |-> <<(<<StrV(<<"P">>), StrV(<<"x">>)>>), (<<StrV(<<"H">>), None>>)>>,
     pipestatus |-> <<IntV(0), IntV(1)>>]

DictLs2 ==
    [command |-> StrV(ls), cwd |-> StrV(<<"/", "a">>), start |-> IntV(200),
     environ |-> <<(<<StrV(<<"P">>), StrV(<<"x">>)>>)>>]

DictGitRoot == [command |-> StrV(git), cwd |-> StrV(<<"/">>), start |-> IntV(100)]

DictGitRoot2 == [command |-> StrV(git), cwd |-> StrV(<<"/", "/">>), start |-> IntV(300)]

DictNone == [command |-> None, exit_code |-> IntV(1)]

DictPipeFails ==
    [command |-> StrV(svn), cwd |-> StrV(<<"/", "b">>), start |-> IntV(50),
     pipestatus |-> <<IntV(0), ListV>>]

DictEnvFails ==
    [command |-> StrV(ls), start |-> IntV(60),
     environ |-> <<(<<StrV(<<"A">>), StrV(<<"y">>)>>), (<<StrV(<<"B">>), ListV>>)>>]

Dicts == {DictLs1, DictLs2, DictGitRoot, DictGitRoot2, DictNone,
          DictPipeFails, DictEnvFails}

\* The arguments search_command_record is given in the store's
\* specification.
SearchArgs ==
    [limit : {IntV(0 - 1), IntV(0), IntV(1), IntV(2)},
     pattern : {<<>>, <<StrV(<<"l", "*">>)>>},
     cwd : {<<>>},
     cwd_glob : {<<>>},
     unique : BOOLEAN]

-----------------------------------------------------------------------------
(* The operations *)

\* CommandRecord(**dct): the fields given, None for a field left out (no
\* environ, no pipestatus when left out).
CommandRecord(dct) ==
    [command |-> IF "command" \in DOMAIN dct THEN dct.command ELSE None,
     cwd |-> IF "cwd" \in DOMAIN dct THEN dct.cwd ELSE None,
     terminal |-> IF "terminal" \in DOMAIN dct THEN dct.terminal ELSE None,
     start |-> IF "start" \in DOMAIN dct THEN dct.start ELSE None,
     stop |-> IF "stop" \in DOMAIN dct THEN dct.stop ELSE None,
     exit_code |-> IF "exit_code" \in DOMAIN dct THEN dct.exit_code ELSE None,
     environ |-> IF "environ" \in DOMAIN dct THEN dct.environ ELSE <<>>,
     pipestatus |-> IF "pipestatus" \in DOMAIN dct THEN dct.pipestatus ELSE <<>>]

Init ==
    /\ dbexists = FALSE
    /\ committed = EmptyTables
    /\ inst = FALSE
    /\ _db = "None"
    /\ db = "unset"
    /\ view = EmptyTables
    /\ held = FALSE
    /\ owner = FALSE
    /\ yielded = "none"
    /\ nimports = 0
    /\ failed = {}
    /\ ret = [op |-> "none"]
    /\ outfile = [exists |-> FALSE, lines |-> <<>>]

\* DataBase(dbpath), taking the place of the instance there was: the store
\* is created when the path does not exist.
Construct ==
    /\ ~held
    /\ inst' = TRUE
    /\ _db' = "None"
    /\ db' = "unset"
    /\ dbexists' = TRUE
    /\ committed' = IF dbexists THEN committed ELSE init_db
    /\ view' = committed'
    /\ ret' = [op |-> "construct"]
    /\ UNCHANGED <<held, owner, yielded, nimports, failed, outfile>>

\* The caller enters `with db.connection():`.  connection() yields
\* self._db when it is set, else opens a connection and keeps it in
\* self._db.
EnterScope ==
    /\ inst /\ ~held
    /\ held' = TRUE
    /\ owner' = (_db = "None")
    /\ _db' = IF _db = "None" THEN "open" ELSE _db
    /\ yielded' = _db'
    /\ view' = IF _db = "None" THEN committed ELSE view
    /\ ret' = [op |-> "enter"]
    /\ UNCHANGED <<dbexists, committed, inst, db, nimports, failed, outfile>>

\* The caller leaves the block.  The block that opened the connection
\* closes it (closing(), which drops what is not committed) and line 75
\* sets self.db; self._db goes on naming the closed connection.
ExitScope ==
    /\ held
    /\ held' = FALSE
    /\ owner' = FALSE
    /\ _db' = IF owner THEN "closed" ELSE _db
    /\ db' = IF owner THEN "None" ELSE db
    /\ view' = IF owner THEN committed ELSE view
    /\ ret' = [op |-> "exit"]
    /\ UNCHANGED <<dbexists, committed, inst, yielded, nimports, failed, outfile>>

\* The state import_dict leaves, o being what its body did on the
\* connection conn (fresh: opened by this call, so closed at its end,
\* which drops what is not committed).
ImportEnds(op, o, fresh, conn, skip, more) ==
    /\ nimports' = nimports + 1
    /\ yielded' = IF skip THEN yielded ELSE conn
    /\ committed' = IF o.exc = "none" THEN o.t ELSE committed
    /\ view' = IF fresh THEN committed' ELSE o.t
    /\ _db' = IF fresh /\ ~skip THEN "closed" ELSE _db
    /\ db' = IF fresh /\ ~skip THEN "None" ELSE db
    /\ failed' = IF o.exc = "none" THEN failed ELSE failed \cup {nimports + 1}
    /\ ret' = [op |-> op, exc |-> o.exc, by |-> nimports + 1, id |-> o.id,
               more |-> more]
    /\ UNCHANGED <<dbexists, inst, held, owner, outfile>>

\* What import_dict's body does on the tables t0 of the connection conn:
\* a closed connection raises at connection.cursor().
ImportOutcome(t0, conn, crec, by, skip) ==
    IF skip THEN Outcome(t0, None, "none")
    ELSE IF conn = "closed" THEN Outcome(t0, None, "ProgrammingError")
    ELSE import_body(t0, crec, by)

\* import_dict(dct, check_duplicate), called as `op`.  Its connection() is
\* entered and left within the call.
Import(op, dct, check_duplicate, more) ==
    /\ inst /\ nimports < MaxImports
    /\ ImportEnds(op,
           ImportOutcome(IF _db = "None" THEN committed ELSE view,
                         IF _db = "None" THEN "open" ELSE _db,
                         CommandRecord(dct), nimports + 1,
                         check_duplicate
                         /\ select_by_command_record(CommandRecord(dct)) # <<>>),
           _db = "None",
           IF _db = "None" THEN "open" ELSE _db,
           check_duplicate /\ select_by_command_record(CommandRecord(dct)) # <<>>,
           more)

ImportDict == \E dct \in Dicts, check_duplicate \in BOOLEAN :
    Import("import", dct, check_duplicate, 0)

\* import_dict given a record the last search returned, field for field.
ReImport ==
    /\ ret.op = "search" /\ ret.exc = "none"
    /\ \E i \in 1..Len(ret.rows) :
           Import("reimport", ret.rows[i].rec, TRUE, ret.rows[i].rowid)

\* list(search_command_record(**args)): the generator run to its end.
Search(args) ==
    LET c == compile_sql_search_command_record(
                 args.limit, args.pattern, args.cwd, args.cwd_glob, args.unique)
        fresh == _db = "None"
        conn == IF fresh THEN "open" ELSE _db
        t0 == IF fresh THEN committed ELSE view
    IN  /\ inst
        /\ yielded' = conn
        /\ _db' = IF fresh THEN "closed" ELSE _db
        /\ db' = IF fresh THEN "None" ELSE db
        /\ view' = t0
        /\ IF conn = "closed"
           THEN ret' = [op |-> "search", exc |-> "ProgrammingError", args |-> args,
                        rows |-> <<>>]
           ELSE \E rows \in Execute(c.sql, c.params, t0) :
                    ret' = [op |-> "search", exc |-> "none", args |-> args,
                            rows |-> rows]
        /\ UNCHANGED <<dbexists, committed, inst, held, owner, nimports, failed,
                       outfile>>

SearchCommandRecord == \E args \in SearchArgs : Search(args)

Next ==
    \/ Construct
    \/ EnterScope
    \/ ExitScope
    \/ ImportDict
    \/ ReImport
    \/ SearchCommandRecord

Spec == Init /\ [][Next]_vars

-----------------------------------------------------------------------------
(* The search compiler on its own: every argument list within the bounds,  *)
(* and the WHERE clause it builds on every kind of joined row.             *)

MaxPatterns == 2

SeqsUpTo(S, n) == UNION {[1..k -> S] : k \in 0..n}

CompileArgs ==
    [limit : {IntV(5)},
     pattern : SeqsUpTo({StrV(<<"l", "*">>), StrV(<<"g", "?", "t">>)}, MaxPatterns),
     cwd : SeqsUpTo({StrV(<<"/", "a", "/">>), StrV(<<"/">>)}, MaxPatterns),
     cwd_glob : SeqsUpTo({StrV(<<"/", "a", "*">>), StrV(<<"*", "b">>)}, MaxPatterns),
     unique : BOOLEAN]

\* Joined rows: a command or none, a directory (as stored) or none.
SampleRows ==
    {[rowid |-> 1,
      cols |-> [c \in {"CL.command", "DL.directory", "TL.terminal",
                       "start_time", "stop_time", "exit_code"} |->
                  CASE c = "CL.command" -> cmd
                    [] c = "DL.directory" -> dir
                    [] OTHER -> None]] :
        cmd \in {None, StrV(ls), StrV(git)},
        dir \in {None, StrV(<<>>), StrV(<<"/", "a">>), StrV(<<"/", "a", "b">>)}}

\* _compile_sql_search_command_record(**args).
Compile(args) ==
    LET c == compile_sql_search_command_record(
                 args.limit, args.pattern, args.cwd, args.cwd_glob, args.unique)
    IN  /\ ret.op = "none"
        /\ ret' = [op |-> "compile", args |-> args, sql |-> c.sql,
                   params |-> c.params, keys |-> c.keys]
        /\ UNCHANGED <<storeVars, outfile>>

CompileSearch == \E args \in CompileArgs : Compile(args)

\* cur.execute(sql, params) deciding one joined row.
WhereRow(row) ==
    /\ ret.op = "compile"
    /\ ret' = [op |-> "where", args |-> ret.args, sql |-> ret.sql,
               params |-> ret.params, keys |-> ret.keys, row |-> row,
               value |-> Where(ret.sql, ret.params, row)]
    /\ UNCHANGED <<storeVars, outfile>>

DecideRow == \E row \in SampleRows : WhereRow(row)

NextCompile == CompileSearch \/ DecideRow

SpecCompile == Init /\ [][NextCompile]_vars

-----------------------------------------------------------------------------
(* rash/export.py *)

SUPPORTED_FORMATS == {"bash"}

Formats == {"bash", "zsh"}

Outputs == {"-", "out"}

\* The offsets of local time from UTC the exporter may run under.
UtcOffsets == {0, 3600}

\* datetime_to_unix on the text sqlite3 returns: the text read as local
\* time; 0 for None.
datetime_to_unix(dt, offset) ==
    IF dt.k = "null" THEN IntV(0) ELSE IntV(dt.v - offset)

\* The lines export_bash writes for the records, in order: records without
\* a command are skipped, a record with a start gets a #timestamp line.
RECURSIVE bash_lines(_, _)
bash_lines(records, offset) ==
    IF records = <<>> THEN <<>>
    ELSE LET crec == Head(records).rec IN
         (IF crec.command.k = "null" \/ crec.command.s = <<>> THEN <<>>
          ELSE (IF crec.start.k # "null"
                THEN <<StrV(<<"#">>), datetime_to_unix(crec.start, offset)>>
                ELSE <<>>)
               \o <<crec.command>>)
         \o bash_lines(Tail(records), offset)

\* get_all_command_records and the sort of export_bash: the rows in
\* ORDER BY start_time order; the sort is stable and keeps it.
AllRecordOrders(t) ==
    {[i \in 1..Len(o) |-> [rowid |-> o[i].rowid,
                           rec |-> [command |-> o[i].cols["CL.command"],
                                    start |-> o[i].cols["start_time"]]]] :
        o \in Orders(Kw("ORDER BY start_time"),
                     {Joined(t)[i] : i \in 1..Len(t.command_history)})}

\* get_exporter
get_exporter(format) == IF format \in SUPPORTED_FORMATS THEN "export_bash" ELSE "ValueError"

\* export_run(format, output).  DataBase(cfstore.db_path) creates the
\* store when it is missing; the output file is opened for writing, which
\* creates or truncates it; only then is the exporter looked up.  written:
\* the lines that reached the output (up to where a pipe broke).
ExportRun ==
    \E format \in Formats, output \in Outputs, offset \in UtcOffsets :
    \E records \in AllRecordOrders(IF dbexists THEN committed ELSE init_db) :
    \E n \in 0..Len(bash_lines(records, offset)) :
        /\ output # "-" => n = Len(bash_lines(records, offset))
        /\ dbexists' = TRUE
        /\ committed' = IF dbexists THEN committed ELSE init_db
        /\ view' = IF dbexists THEN view ELSE init_db
        /\ ret' = [op |-> "export", format |-> format, output |-> output,
                   exc |-> IF get_exporter(format) = "ValueError"
                           THEN "ValueError" ELSE "none",
                   created |-> ~dbexists,
                   opened |-> output # "-",
                   written |-> IF get_exporter(format) = "ValueError" THEN <<>>
                               ELSE SubSeq(bash_lines(records, offset), 1, n)]
        /\ outfile' = IF output = "-" THEN outfile
                      ELSE [exists |-> TRUE, lines |-> ret'.written]
        /\ UNCHANGED <<inst, _db, db, held, owner, yielded, nimports, failed>>

NextExport == Construct \/ ImportDict \/ ExportRun

SpecExport == Init /\ [][NextExport]_vars

-----------------------------------------------------------------------------
(* Properties of the store *)

RowTables == DimTables \cup {"command_history", "command_environment_map",
                             "pipe_status_map"}

\* C1 (import atomicity): the committed store holds no row (history, map,
\* pipe status or dimension) that an import_dict call which raised inserted.
C1_ImportAtomicity ==
    \A tb \in RowTables : \A i \in 1..Len(committed[tb]) :
        committed[tb][i].by \notin failed

\* C2 (connection lifecycle): the instance never names a closed connection,
\* and connection() never yields one.
C2_ConnectionLifecycle == _db # "closed" /\ yielded # "closed"

NoDuplicateKeys(t) ==
    \A tb \in DimTables : \A i, j \in 1..Len(t[tb]) :
        t[tb][i].key = t[tb][j].key => i = j

SameDirectory(a, b) ==
    /\ a # None /\ b # None
    /\ normalize_directory(a.s) = normalize_directory(b.s)

SameKeySameId(t) ==
    /\ \A i, j \in 1..Len(t.command_history) :
           LET a == t.command_history[i]
               b == t.command_history[j]
           IN  /\ a.rec.command = b.rec.command => a.command_id = b.command_id
               /\ a.rec.terminal = b.rec.terminal => a.terminal_id = b.terminal_id
               /\ SameDirectory(a.rec.cwd, b.rec.cwd)
                  => a.directory_id = b.directory_id
    /\ \A i, j \in 1..Len(t.command_environment_map) :
           t.command_environment_map[i].var = t.command_environment_map[j].var
           => t.command_environment_map[i].ev_id = t.command_environment_map[j].ev_id

\* C3 (dimension uniqueness, idempotent get-or-create): no dimension table,
\* as committed or as the connection sees it, holds two rows with the same
\* key, and two resolutions of one key (a command, a terminal, a directory
\* up to normalisation, a variable and its value) gave the same id.
C3_DimensionUniqueness ==
    /\ NoDuplicateKeys(view) /\ NoDuplicateKeys(committed)
    /\ SameKeySameId(view) /\ SameKeySameId(committed)

\* Two committed rows of two imports that resolved the same command, the
\* same directory (given as /a/ and as /a) and the same variable.
C3_Witness ==
    /\ Len(committed.command_history) = 2
    /\ committed.command_history[1].rec.cwd # committed.command_history[2].rec.cwd
    /\ committed.command_history[1].command_id = IntV(1)
    /\ committed.command_history[2].command_id = IntV(1)
    /\ committed.command_history[1].directory_id = IntV(1)
    /\ committed.command_history[2].directory_id = IntV(1)
    /\ Len(committed.command_environment_map) = 2
    /\ Len(committed.environment_variable) = 1

\* Two paths the claim takes for one directory: they differ by a trailing
\* separator, or are equal after absolute resolution.
SamePlace(p, q) ==
    \/ p = q \o <<sep>>
    \/ q = p \o <<sep>>
    \/ Abspath(p) = Abspath(q)

\* C9 (directory normalisation equivalence): two history rows imported with
\* cwd values that differ only by a trailing separator, or are equal after
\* absolute resolution, refer to the same directory_list row.
C9_DirectoryEquivalence ==
    \A i, j \in 1..Len(view.command_history) :
        LET a == view.command_history[i]
            b == view.command_history[j]
        IN  (a.rec.cwd # None /\ b.rec.cwd # None
             /\ SamePlace(a.rec.cwd.s, b.rec.cwd.s))
            => a.directory_id = b.directory_id

HistoryColumns(h) ==
    <<h.command_id, h.directory_id, h.terminal_id, h.start_time, h.stop_time,
      h.exit_code>>

\* C10 (round-trip shape): import_dict given a record a search returned, on
\* a connection that is open and when no earlier import raised, returns,
\* and the row it inserted is a new row whose command, directory, terminal,
\* start, stop and exit code are those of the row the record came from.
C10_RoundTrip ==
    (ret.op = "reimport" /\ yielded = "open" /\ failed \subseteq {ret.by})
    => /\ ret.exc = "none"
       /\ ret.id.v # ret.more
       /\ HistoryColumns(view.command_history[ret.id.v])
          = HistoryColumns(view.command_history[ret.more])

-----------------------------------------------------------------------------
(* Properties of search *)

\* A joined row matches the criteria: in every category that is not
\* empty, one pattern at least matches it.
Matches(row, args) ==
    /\ args.pattern # <<>>
       => \E i \in 1..Len(args.pattern) :
              /\ row.cols["CL.command"] # None
              /\ Glob(args.pattern[i].s, row.cols["CL.command"].s)
    /\ args.cwd_glob # <<>>
       => \E i \in 1..Len(args.cwd_glob) :
              /\ row.cols["DL.directory"] # None
              /\ Glob(args.cwd_glob[i].s, row.cols["DL.directory"].s)
    /\ args.cwd # <<>>
       => \E i \in 1..Len(args.cwd) :
              /\ row.cols["DL.directory"] # None
              /\ row.cols["DL.directory"].s = normalize_directory(args.cwd[i].s)

\* The rows of the tables the last search ran on that match its criteria.
Matching == {r \in {Joined(view)[i] : i \in 1..Len(view.command_history)} :
                Matches(r, ret.args)}

Searched(unique) ==
    ret.op = "search" /\ ret.exc = "none" /\ ret.args.unique = unique

Returned == {ret.rows[i].rowid : i \in 1..Len(ret.rows)}

\* The result is in ORDER BY's order of start: NULLs first, then ascending.
Sorted ==
    \A i \in 1..(Len(ret.rows) - 1) :
        Before(ret.rows[i].rec.start, ret.rows[i + 1].rec.start)

\* The result is n rows of the matching ones, each once, none of them
\* later than a matching row left out, in order.
Earliest(n) ==
    /\ Len(ret.rows) = n
    /\ Cardinality(Returned) = n
    /\ Returned \subseteq {r.rowid : r \in Matching}
    /\ \A i \in 1..Len(ret.rows) : \A m \in Matching :
           m.rowid \notin Returned => Before(ret.rows[i].rec.start, m.cols["start_time"])
    /\ Sorted

\* C7 as stated (search limit and ordering): a search that is not unique,
\* over rows of which some match, returns at most limit rows, which are the limit earliest matching rows
\* (all of them when fewer match), in order of start.
C7_LimitAsStated ==
    (Searched(FALSE) /\ Matching # {})
    => /\ Len(ret.rows) <= ret.args.limit.v
       /\ Earliest(Min(ret.args.limit.v, Cardinality(Matching)))

\* C7 as amended: with a limit k >= 0 the search returns the
\* min(k, matching) earliest matching rows; with a negative limit it
\* returns every matching row; in both cases in order of start, rows
\* without a start first.
C7_LimitAndOrdering ==
    Searched(FALSE)
    => IF ret.args.limit.v >= 0
       THEN Earliest(Min(ret.args.limit.v, Cardinality(Matching)))
       ELSE Earliest(Cardinality(Matching))

\* A search with limit 1 over two matching rows of different start
\* returned the earlier one.
C7_Witness ==
    /\ Searched(FALSE)
    /\ ret.args.limit.v = 1
    /\ Cardinality(Matching) = 2
    /\ Len(ret.rows) = 1
    /\ \E m \in Matching : m.cols["start_time"] # ret.rows[1].rec.start

\* The command values of the matching rows (None, when a matching row has
\* no command, is one of them).
MatchingCommands == {r.cols["CL.command"] : r \in Matching}

GroupOf(c) == {r \in Matching : r.cols["CL.command"] = c}

\* Every returned row stands for another command value of the matching
\* rows, with that group's greatest start.
OnePerCommand ==
    /\ \A i, j \in 1..Len(ret.rows) :
           ret.rows[i].rec.command = ret.rows[j].rec.command => i = j
    /\ \A i \in 1..Len(ret.rows) :
           /\ ret.rows[i].rec.command \in MatchingCommands
           /\ ret.rows[i].rec.start = MaxStart(GroupOf(ret.rows[i].rec.command))

\* C6 as stated (uniqueness grouping): a unique search (with a limit other
\* than 0, no import having raised) returns exactly one row per distinct command among the matching
\* rows, its start the greatest start of the matching rows of that command.
C6_UniqueAsStated ==
    (Searched(TRUE) /\ ret.args.limit.v # 0 /\ failed = {})
    => /\ OnePerCommand
       /\ Len(ret.rows) = Cardinality(MatchingCommands)

\* C6 as amended: a unique search returns one row per command value of the
\* matching rows, its start the greatest start of that command's matching
\* rows, for all the commands when the limit is negative or not below
\* their number, and else for the `limit` commands whose greatest start is
\* earliest; in order of that start.
C6_UniqueGrouping ==
    Searched(TRUE)
    => /\ OnePerCommand
       /\ Len(ret.rows) = IF ret.args.limit.v < 0 THEN Cardinality(MatchingCommands)
                          ELSE Min(ret.args.limit.v, Cardinality(MatchingCommands))
       /\ \A i \in 1..Len(ret.rows) : \A c \in MatchingCommands :
              (\A j \in 1..Len(ret.rows) : ret.rows[j].rec.command # c)
              => Before(ret.rows[i].rec.start, MaxStart(GroupOf(c)))
       /\ Sorted

\* ls imported with start 100 and with start 200: the unique search on l*
\* returned one row, of start 200.
C6_Witness ==
    /\ Searched(TRUE)
    /\ ret.args.pattern # <<>>
    /\ Cardinality(Matching) = 2
    /\ {r.cols["start_time"] : r \in Matching} = {TextV(100), TextV(200)}
    /\ Len(ret.rows) = 1
    /\ ret.rows[1].rec.command = StrV(ls)
    /\ ret.rows[1].rec.start = TextV(200)

-----------------------------------------------------------------------------
(* Properties of the compiler and of the exporter *)

Compiled == ret.op \in {"compile", "where"}

Placeholders(sql) == SelectSeq(sql, IsPlaceholder)

\* C4 (parameter binding order): the statement holds as many placeholders
\* as there are parameters; the parameters are the command patterns, the
\* directory globs, the normalised exact directories and the limit, in
\* that order, and the placeholders, in the statement's order, are those
\* of the command globs, the directory globs, the directory equalities and
\* the LIMIT.
C4_BindingOrder ==
    Compiled
    => /\ NumPlaceholders(ret.sql) = Len(ret.params)
       /\ ret.params
          = ret.args.pattern \o ret.args.cwd_glob
            \o [i \in 1..Len(ret.args.cwd) |->
                   StrV(normalize_directory(ret.args.cwd[i].s))]
            \o <<ret.args.limit>>
       /\ Placeholders(ret.sql)
          = [i \in 1..Len(ret.args.pattern) |-> <<"glob(?, {0})", "CL.command">>]
            \o [i \in 1..Len(ret.args.cwd_glob) |-> <<"glob(?, {0})", "DL.directory">>]
            \o [i \in 1..Len(ret.args.cwd) |-> <<"{0} = ?", "DL.directory">>]
            \o <<(<<"LIMIT ?">>)>>

\* A statement compiled from two patterns, two globs and two directories.
C4_Witness ==
    /\ ret.op = "compile"
    /\ Len(ret.args.pattern) = 2 /\ ret.args.pattern[1] # ret.args.pattern[2]
    /\ Len(ret.args.cwd_glob) = 2
    /\ Len(ret.args.cwd) = 2 /\ ret.args.cwd[1] # ret.args.cwd[2]
    /\ Len(ret.params) = 7

\* C5 (filter composition): the WHERE clause keeps a row exactly when, in
\* every category that is not empty, one pattern at least matches the row;
\* with every category empty there is no WHERE clause and every row is
\* kept, whatever is NULL in it.
C5_FilterComposition ==
    ret.op = "where"
    => /\ (ret.value = "T") <=> Matches(ret.row, ret.args)
       /\ (ret.args.pattern = <<>> /\ ret.args.cwd_glob = <<>> /\ ret.args.cwd = <<>>)
          => (IndexOf(ret.sql, <<"WHERE">>) = 0 /\ ret.value = "T")

\* A row kept by a WHERE clause of two categories, one of whose command
\* patterns does not match it.
C5_Witness ==
    /\ ret.op = "where"
    /\ ret.value = "T"
    /\ Len(ret.args.pattern) = 2 /\ ret.args.cwd # <<>> /\ ret.args.cwd_glob = <<>>
    /\ \E i \in 1..2 : ~Glob(ret.args.pattern[i].s, ret.row.cols["CL.command"].s)

\* C8 (unsupported export format): export_run given a format it does not
\* support raises without having created the store or opened (created,
\* truncated) the output file.
C8_UnsupportedFormat ==
    (ret.op = "export" /\ ret.format \notin SUPPORTED_FORMATS)
    => /\ ret.exc = "ValueError"
       /\ ~ret.created
       /\ ~ret.opened

====
